---- MODULE Spec2Model ----
(***************************************************************************)
(* Model of farm_ng.oak.camera_client: the RateLimiter decorator and the   *)
(* OakCameraClient built on it, together with the AmigaCamera component of *)
(* examples/camera_pipeline that drives stream_frames.                     *)
(*                                                                         *)
(* The caller of a client pushes settings from one task: it awaits          *)
(* send_settings before it calls it again, and passes a reply to           *)
(* settings_reply at most once.                                            *)
(* Everything runs on one asyncio event loop, so every synchronous stretch *)
(* of code (a call up to its first await, a timer callback, the resumption *)
(* of an awaited RPC) is one atomic action.  time.monotonic() is a clock   *)
(* of TicksPerSecond ticks per second; a call_later timer runs at or after *)
(* its due time, arbitrarily late when the loop is busy.                   *)
(***************************************************************************)
EXTENDS Integers, Sequences, FiniteSets, TLC

(* ---------------------------- bounds ----------------------------------- *)
\* resolution of the modelled clock: ticks per second of time.monotonic()
TicksPerSecond == 2
\* the clock stops advancing here
MaxTime == 3
\* total number of API calls made by the callers in one behaviour
MaxCalls == 4

(* ---------------------------- constants -------------------------------- *)
\* @RateLimiter(period=1): seconds
period == 1
PeriodTicks == period * TicksPerSecond
\* last_call = None
NoTime == -1
\* AmigaCamera.forward: stream_frames(every_n=10)
ForwardEveryN == 10

\* OakCameraClient instances
Clients == {"A", "B"}
\* the client whose settings protocol SpecSettings follows
SettingsClients == {"A"}
\* the two RateLimiter instances, created once each when the class body runs
Limiters == {"rgb", "mono"}
\* contents of an oak_pb2.CameraSettings message
SettingsValues == {"auto", "manual"}
\* CameraSettings objects owned by the callers, passed to update_*_settings
CallerObjs == {"x", "y"}
\* a call of update_*_settings that leaves the settings argument out
NoArg == "-"
\* the CameraSettings objects each client constructs for itself
OwnObj(c, ch) == c \o "." \o ch
ObjIds == CallerObjs \cup {OwnObj(c, ch) : c \in Clients, ch \in Limiters}
\* service_pb2.ReplyStatus values
ReplyStatuses == {"OK", "FAILED"}
\* ServiceState values
ServiceStates == {"UNKNOWN", "RUNNING", "ERROR"}
\* grpc.RpcError status codes of a failed RPC
RpcErrors == {"UNAVAILABLE", "DEADLINE_EXCEEDED"}
EveryNChoices == {1, ForwardEveryN}

VARIABLES
    now,        \* time.monotonic(), in ticks
    limiter,    \* limiter[l]: the fields of the RateLimiter instance l
    timers,     \* call_later handles not yet run
    client,     \* client[c]: the fields of OakCameraClient c
    heap,       \* heap[o]: contents of the CameraSettings object o
    ctrl,       \* ctrl[c]: the cameraControl request of c awaiting completion, if any
    held,       \* held[c]: the reply send_settings last returned, until it is used
    statePoll,  \* statePoll[c]: getServiceState RPCs of c awaiting completion
    stateResult,\* stateResult[c]: what the last get_state of c gave its caller
    streams,    \* streams[c]: the streamFrames RPCs opened on c's stub
    component,  \* component[c]: AmigaCamera.stream of the component owning c
    hist,       \* history: per limiter, invocation and execution bookkeeping
    ev,         \* history: the step just taken
    calls       \* history: number of API calls made so far

vars == <<now, limiter, timers, client, heap, ctrl, held, statePoll,
          stateResult, streams, component, hist, ev, calls>>

(* ---------------------------- RateLimiter ------------------------------ *)
\* RateLimiter.__init__
RateLimiterInit == [last_call |-> NoTime, outstanding_call |-> FALSE, args |-> << >>]

\* variant: a limiter that never ran reports no wait instead of a negative one
next_call_wait_zero(lm, t) ==
    IF lm.last_call = NoTime THEN 0 ELSE PeriodTicks - (t - lm.last_call)

\* RateLimiter.next_call_wait, at clock reading t
next_call_wait(lm, t) ==
    IF lm.last_call = NoTime THEN -1 ELSE PeriodTicks - (t - lm.last_call)

\* variant: the arguments are kept from the call that scheduled the timer
StoreArgsUnlessOutstanding(lm, a) ==
    IF lm.outstanding_call THEN lm ELSE [lm EXCEPT !.args = a]

\* async_wrapper: self.args = args (kargs is always empty here)
StoreArgs(lm, a) == [lm EXCEPT !.args = a]

\* variant: a wait of exactly zero also runs at once
RunsNowOrZero(delay) == delay <= 0

\* async_wrapper: if delay < 0
RunsNow(delay) == delay < 0

\* variant: wrapper leaves the scheduled flag as it is
wrapper_keeps_flag(lm, t) == [lm EXCEPT !.last_call = t]

\* RateLimiter.wrapper, the limiter's own fields
wrapper(lm, t) == [lm EXCEPT !.last_call = t, !.outstanding_call = FALSE]

\* variant: func is called before the limiter's fields are assigned
wrapper_call_first(lm, t) == lm

\* RateLimiter.wrapper when func raises: the two assignments come first
wrapper_raising(lm, t) == wrapper(lm, t)

\* variant: one RateLimiter instance decorates both methods
SharedLimiter(l) == "rgb"

\* the RateLimiter instance that decorates method l: each @RateLimiter(period=1)
\* line constructs its own
LimiterOf(l) == l

(* ---------------------------- OakCameraClient -------------------------- *)
\* OakCameraClient.__init__
ClientInit(c) ==
    [mono_camera_settings |-> OwnObj(c, "mono"),
     rgb_camera_settings  |-> OwnObj(c, "rgb"),
     needs_update         |-> FALSE]

\* variant: the rgb update stores into the mono field
update_rgb_settings_into_mono(cl, o) ==
    [cl EXCEPT !.needs_update = TRUE, !.mono_camera_settings = o]

\* OakCameraClient.update_rgb_settings
update_rgb_settings(cl, o) ==
    [cl EXCEPT !.needs_update = TRUE, !.rgb_camera_settings = o]

\* variant: the mono update forgets to mark the client
update_mono_settings_unflagged(cl, o) ==
    [cl EXCEPT !.mono_camera_settings = o]

\* OakCameraClient.update_mono_settings
update_mono_settings(cl, o) ==
    [cl EXCEPT !.needs_update = TRUE, !.mono_camera_settings = o]

\* the function each limiter decorates
Func(l, cl, o) ==
    IF l = "rgb" THEN update_rgb_settings(cl, o) ELSE update_mono_settings(cl, o)

\* func(*self.args) raises TypeError when the settings argument is missing
FuncRaises(a) == a[2] = NoArg

\* RateLimiter.wrapper: func(*self.args, **self.kargs); the third component of
\* a names the invocation that supplied the arguments (history, not in the code)
RunFunc(l, a) ==
    IF FuncRaises(a) THEN client
    ELSE [client EXCEPT ![a[1]] = Func(l, client[a[1]], a[2])]

\* contents of the settings objects client c holds
MonoValue(c) == heap[client[c].mono_camera_settings]
RgbValue(c) == heap[client[c].rgb_camera_settings]

\* OakCameraClient.send_settings: the CameraControlRequest it builds
BuildRequest(cl) ==
    [stereo |-> heap[cl.mono_camera_settings], rgb |-> heap[cl.rgb_camera_settings]]

\* variant: the flag is left for the acknowledgement to clear
KeepDirty(cl) == cl

\* OakCameraClient.send_settings: self.needs_update = False
ClearDirty(cl) == [cl EXCEPT !.needs_update = FALSE]

\* variant: the status of the reply is not looked at
ReplyAcceptedAlways(reply) == TRUE

\* OakCameraClient.settings_reply: if reply.status == ReplyStatus.OK
ReplyAccepted(reply) == reply.status = "OK"

\* variant: only the mono settings are copied from the reply
settings_reply_mono_only(cl, reply) ==
    IF reply.status = "OK"
    THEN [heap EXCEPT ![cl.mono_camera_settings] = reply.stereo]
    ELSE heap

\* OakCameraClient.settings_reply: the two CopyFrom calls, in program order
settings_reply(cl, reply) ==
    IF ReplyAccepted(reply)
    THEN LET h1 == [heap EXCEPT ![cl.mono_camera_settings] = reply.stereo]
         IN  [h1 EXCEPT ![cl.rgb_camera_settings] = reply.rgb]
    ELSE heap

\* ServiceState(): the state a ServiceState built without a reply holds
ServiceStateDefault == "UNKNOWN"

\* variant: only an unreachable peer is handled
CaughtUnavailableOnly(err) == err = "UNAVAILABLE"

\* OakCameraClient.get_state: except grpc.RpcError
Caught(err) == err \in RpcErrors

\* response.state values outside the enumeration
MalformedStates == {"OUT_OF_RANGE"}

\* ServiceState(response.state) and state.name for a value outside the
\* enumeration: the lookup raises, or the raw value is carried along
ConstructorOutcomes == {"raises", "wraps"}

\* ServiceState(response.state) followed by state.name
ServiceStateOf(value, ctor) ==
    IF value \in ServiceStates \/ ctor = "wraps"
    THEN [raised |-> FALSE, state |-> value]
    ELSE [raised |-> TRUE, state |-> "LookupError"]

\* OakCameraClient.get_state: what the caller gets for an RPC outcome
get_state(outcome) ==
    IF outcome.kind = "error"
    THEN IF Caught(outcome.err)
         THEN [raised |-> FALSE, state |-> ServiceStateDefault]
         ELSE [raised |-> TRUE, state |-> outcome.err]
    ELSE ServiceStateOf(outcome.state, outcome.ctor)

\* outcomes of a getServiceState RPC
StateOutcomes ==
    [kind : {"error"}, err : RpcErrors, state : {"-"}, ctor : {"-"}]
        \cup [kind : {"reply"}, err : {"-"}, state : ServiceStates, ctor : {"-"}]
        \cup [kind : {"reply"}, err : {"-"}, state : MalformedStates,
               ctor : ConstructorOutcomes]

\* replies of a cameraControl RPC
ControlReplies == [status : ReplyStatuses, stereo : SettingsValues, rgb : SettingsValues]

\* variant: forward opens a stream on every call
AlwaysNeedsStream(c) == TRUE

\* AmigaCamera.forward: if self.stream is None
NeedsStream(c) == component[c] = 0

(* ---------------------------- history ---------------------------------- *)
HistInit == [nInvoke |-> 0, nExec |-> 0, latest |-> << >>, lastExecT |-> NoTime,
             lastExecInv |-> 0, callers |-> {}]

NoEv == [op |-> "init", c |-> "-", lim |-> "-", d |-> [ran |-> "no"]]

\* ticks between the execution happening now and the previous one of limiter l
ExecGap(l) == IF hist[l].lastExecT = NoTime THEN NoTime ELSE now - hist[l].lastExecT

\* an execution with the arguments of invocation inv
HistExec(h, inv) == [h EXCEPT !.nExec = @ + 1, !.lastExecT = now, !.lastExecInv = inv]

(* ---------------------------- initial state ---------------------------- *)
Init ==
    /\ now = 0
    /\ limiter = [l \in Limiters |-> RateLimiterInit]
    /\ timers = {}
    /\ client = [c \in Clients |-> ClientInit(c)]
    /\ heap = [o \in ObjIds |-> IF o = "x" THEN "manual" ELSE "auto"]
    /\ ctrl = [c \in Clients |-> << >>]
    /\ held = [c \in Clients |-> << >>]
    /\ statePoll = [c \in Clients |-> 0]
    /\ stateResult = [c \in Clients |-> << >>]
    /\ streams = [c \in Clients |-> << >>]
    /\ component = [c \in Clients |-> 0]
    /\ hist = [l \in Limiters |-> HistInit]
    /\ ev = NoEv
    /\ calls = 0

(* ---------------------------- actions ---------------------------------- *)
\* time.monotonic() advances
Tick ==
    /\ now < MaxTime
    /\ now' = now + 1
    /\ ev' = [NoEv EXCEPT !.op = "tick"]
    /\ UNCHANGED <<limiter, timers, client, heap, ctrl, held, statePoll,
                   stateResult, streams, component, hist, calls>>

\* time.monotonic() keeps advancing while a scheduled timer is not yet due
TickDue ==
    /\ now >= MaxTime
    /\ \E t \in timers : t.when > now
    /\ now' = now + 1
    /\ ev' = [NoEv EXCEPT !.op = "tick"]
    /\ UNCHANGED <<limiter, timers, client, heap, ctrl, held, statePoll,
                   stateResult, streams, component, hist, calls>>

\* client c calls the decorated method of limiter l with settings object o:
\* async_wrapper(c, o)
Invoke(l, c, o) ==
    LET k     == LimiterOf(l)
        id    == hist[l].nInvoke + 1
        a     == <<c, o, id>>
        lm    == StoreArgs(limiter[k], a)
        delay == next_call_wait(lm, now)
        h     == [hist[l] EXCEPT !.nInvoke = id, !.latest = a, !.callers = @ \cup {c}]
        info  == [first |-> limiter[k].last_call = NoTime, latest |-> a, delay |-> delay,
                  execsBefore |-> hist[l].nExec, prevInv |-> hist[l].lastExecInv,
                  newCaller |-> c \notin hist[l].callers]
    IN
    /\ calls < MaxCalls
    /\ calls' = calls + 1
    /\ IF RunsNow(delay)
       THEN /\ limiter' = [limiter EXCEPT ![k] =
                            IF FuncRaises(lm.args) THEN wrapper_raising(lm, now)
                            ELSE wrapper(lm, now)]
            /\ client' = RunFunc(l, lm.args)
            /\ timers' = timers
            /\ hist' = [hist EXCEPT ![l] = HistExec(h, lm.args[3])]
            /\ ev' = [op |-> "invoke", c |-> c, lim |-> l,
                      d |-> [ran |-> "immediate", gap |-> ExecGap(l), args |-> lm.args,
                             scheduled |-> FALSE, raised |-> FuncRaises(lm.args)] @@ info]
       ELSE /\ IF ~lm.outstanding_call
               THEN /\ timers' = timers \cup
                           {[lim |-> l, when |-> now + delay, by |-> id, byArgs |-> a]}
                    /\ limiter' = [limiter EXCEPT ![k] = [lm EXCEPT !.outstanding_call = TRUE]]
               ELSE /\ timers' = timers
                    /\ limiter' = [limiter EXCEPT ![k] = lm]
            /\ client' = client
            /\ hist' = [hist EXCEPT ![l] = h]
            /\ ev' = [op |-> "invoke", c |-> c, lim |-> l,
                      d |-> [ran |-> "no", gap |-> NoTime, args |-> << >>,
                             scheduled |-> ~lm.outstanding_call, raised |-> FALSE] @@ info]
    /\ UNCHANGED <<now, heap, ctrl, held, statePoll, stateResult, streams, component>>

\* the event loop runs the call_later handle t: self.wrapper(func)
TimerFire(t) ==
    LET l == t.lim
        k == LimiterOf(l)
        a == limiter[k].args
    IN
    /\ t \in timers
    /\ now >= t.when
    /\ timers' = timers \ {t}
    /\ limiter' = [limiter EXCEPT ![k] =
                    IF FuncRaises(a) THEN wrapper_raising(limiter[k], now)
                    ELSE wrapper(limiter[k], now)]
    /\ client' = RunFunc(l, a)
    /\ hist' = [hist EXCEPT ![l] = HistExec(hist[l], a[3])]
    /\ ev' = [op |-> "fire", c |-> a[1], lim |-> l,
              d |-> [ran |-> "deferred", first |-> FALSE, gap |-> ExecGap(l),
                     args |-> a, latest |-> hist[l].latest, by |-> t.by,
                     byArgs |-> t.byArgs, late |-> now - t.when,
                     raised |-> FuncRaises(a), prevInv |-> hist[l].lastExecInv,
                     prev |-> ev.op, prevC |-> ev.c,
                     wasDirty |-> client[a[1]].needs_update]]
    /\ UNCHANGED <<now, heap, ctrl, held, statePoll, stateResult, streams,
                   component, calls>>

\* send_settings up to its await: the request is built and the RPC started
SendSettings(c) ==
    LET request == BuildRequest(client[c]) IN
    /\ calls < MaxCalls
    /\ ctrl[c] = << >>
    /\ calls' = calls + 1
    /\ client' = [client EXCEPT ![c] = ClearDirty(client[c])]
    /\ ctrl' = [ctrl EXCEPT ![c] = Append(@, request)]
    /\ ev' = [op |-> "send_settings", c |-> c, lim |-> "-",
              d |-> [ran |-> "no", request |-> request, dirty |-> client[c].needs_update]]
    /\ UNCHANGED <<now, limiter, timers, heap, held, statePoll, stateResult,
                   streams, component, hist>>

\* the cameraControl RPC of c completes with a reply, which send_settings
\* returns to its caller
SendSettingsReturn(c, reply) ==
    /\ ctrl[c] # << >>
    /\ ctrl' = [ctrl EXCEPT ![c] = << >>]
    /\ held' = [held EXCEPT ![c] = <<reply>>]
    /\ ev' = [op |-> "send_settings_return", c |-> c, lim |-> "-",
              d |-> [ran |-> "no", reply |-> reply]]
    /\ UNCHANGED <<now, limiter, timers, client, heap, statePoll, stateResult,
                   streams, component, hist, calls>>

\* the cameraControl RPC of c fails: send_settings raises the RpcError
SendSettingsRaise(c, err) ==
    /\ ctrl[c] # << >>
    /\ ctrl' = [ctrl EXCEPT ![c] = << >>]
    /\ ev' = [op |-> "send_settings_raise", c |-> c, lim |-> "-",
              d |-> [ran |-> "no", err |-> err]]
    /\ UNCHANGED <<now, limiter, timers, client, heap, held, statePoll,
                   stateResult, streams, component, hist, calls>>

\* the caller hands the reply it got from send_settings to settings_reply
SettingsReply(c) ==
    /\ held[c] # << >>
    /\ heap' = settings_reply(client[c], Head(held[c]))
    /\ held' = [held EXCEPT ![c] = << >>]
    /\ ev' = [op |-> "settings_reply", c |-> c, lim |-> "-",
              d |-> [ran |-> "no", reply |-> Head(held[c]),
                     before |-> [stereo |-> MonoValue(c), rgb |-> RgbValue(c)]]]
    /\ UNCHANGED <<now, limiter, timers, client, ctrl, statePoll, stateResult,
                   streams, component, hist, calls>>

\* get_state up to its await
GetState(c) ==
    /\ calls < MaxCalls
    /\ calls' = calls + 1
    /\ statePoll' = [statePoll EXCEPT ![c] = @ + 1]
    /\ ev' = [op |-> "get_state", c |-> c, lim |-> "-", d |-> [ran |-> "no"]]
    /\ UNCHANGED <<now, limiter, timers, client, heap, ctrl, held, stateResult,
                   streams, component, hist>>

\* a getServiceState RPC of c completes and get_state resumes
GetStateReturn(c, outcome) ==
    /\ statePoll[c] > 0
    /\ statePoll' = [statePoll EXCEPT ![c] = @ - 1]
    /\ stateResult' = [stateResult EXCEPT ![c] = <<[outcome |-> outcome, got |-> get_state(outcome)]>>]
    /\ ev' = [op |-> "get_state_return", c |-> c, lim |-> "-", d |-> [ran |-> "no"]]
    /\ UNCHANGED <<now, limiter, timers, client, heap, ctrl, held, streams,
                   component, hist, calls>>

\* OakCameraClient.stream_frames(every_n), called directly
StreamFrames(c, n) ==
    /\ calls < MaxCalls
    /\ calls' = calls + 1
    /\ streams' = [streams EXCEPT ![c] = Append(@, [every_n |-> n, by |-> "caller"])]
    /\ ev' = [op |-> "stream_frames", c |-> c, lim |-> "-",
              d |-> [ran |-> "no", opened |-> Len(streams[c])]]
    /\ UNCHANGED <<now, limiter, timers, client, heap, ctrl, held, statePoll,
                   stateResult, component, hist>>

\* AmigaCamera.forward of the component owning client c, up to its await
Forward(c) ==
    /\ calls < MaxCalls
    /\ calls' = calls + 1
    /\ IF NeedsStream(c)
       THEN /\ streams' = [streams EXCEPT ![c] = Append(@, [every_n |-> ForwardEveryN, by |-> "forward"])]
            /\ component' = [component EXCEPT ![c] = Len(streams[c]) + 1]
       ELSE UNCHANGED <<streams, component>>
    /\ ev' = [op |-> "forward", c |-> c, lim |-> "-",
              d |-> [ran |-> "no", opened |-> Len(streams[c]), had |-> component[c] # 0]]
    /\ UNCHANGED <<now, limiter, timers, client, heap, ctrl, held, statePoll,
                   stateResult, hist>>

Next ==
    \/ Tick
    \/ \E l \in Limiters, c \in Clients, o \in CallerObjs : Invoke(l, c, o)
    \/ \E t \in timers : TimerFire(t)
    \/ \E c \in Clients : SendSettings(c)
    \/ \E c \in Clients, r \in ControlReplies : SendSettingsReturn(c, r)
    \/ \E c \in Clients, e \in RpcErrors : SendSettingsRaise(c, e)
    \/ \E c \in Clients : SettingsReply(c)
    \/ \E c \in Clients : GetState(c)
    \/ \E c \in Clients, out \in StateOutcomes : GetStateReturn(c, out)
    \/ \E c \in Clients, n \in EveryNChoices : StreamFrames(c, n)
    \/ \E c \in Clients : Forward(c)

Spec == Init /\ [][Next]_vars

\* the rate limiters and the settings they update
NextLimiter ==
    \/ Tick
    \/ \E l \in Limiters, c \in Clients, o \in CallerObjs : Invoke(l, c, o)
    \/ \E t \in timers : TimerFire(t)

SpecLimiter == Init /\ [][NextLimiter]_vars

\* the rate limiters of one client whose callers may omit the settings
\* argument, which makes the wrapped method raise
NextFaulty ==
    \/ Tick
    \/ \E l \in Limiters, c \in SettingsClients, o \in CallerObjs \cup {NoArg} :
           Invoke(l, c, o)
    \/ \E t \in timers : TimerFire(t)

SpecFaulty == Init /\ [][NextFaulty]_vars

\* the rate limiters of one client on a running event loop: the clock
\* advances and the loop runs every timer that is due
NextLimiterFair ==
    \/ Tick
    \/ TickDue
    \/ \E l \in Limiters, c \in SettingsClients, o \in CallerObjs : Invoke(l, c, o)
    \/ \E t \in timers : TimerFire(t)

SpecLimiterFair ==
    /\ Init
    /\ [][NextLimiterFair]_vars
    /\ WF_vars(Tick)
    /\ WF_vars(TickDue)
    /\ WF_vars(\E t \in timers : TimerFire(t))

\* the settings protocol: updates, pushes and acknowledgements
NextSettings ==
    \/ Tick
    \/ \E l \in Limiters, c \in SettingsClients, o \in CallerObjs : Invoke(l, c, o)
    \/ \E t \in timers : TimerFire(t)
    \/ \E c \in SettingsClients : SendSettings(c)
    \/ \E c \in SettingsClients, r \in ControlReplies : SendSettingsReturn(c, r)
    \/ \E c \in SettingsClients, e \in RpcErrors : SendSettingsRaise(c, e)
    \/ \E c \in SettingsClients : SettingsReply(c)

SpecSettings == Init /\ [][NextSettings]_vars

\* state polling and frame streaming
NextService ==
    \/ \E c \in Clients : GetState(c)
    \/ \E c \in Clients, out \in StateOutcomes : GetStateReturn(c, out)
    \/ \E c \in Clients, n \in EveryNChoices : StreamFrames(c, n)
    \/ \E c \in Clients : Forward(c)

SpecService == Init /\ [][NextService]_vars

(* ======================================================================= *)
(* Properties                                                              *)
(* ======================================================================= *)
Ran == ev.d.ran # "no"
TimersOf(l) == {t \in timers : t.lim = l}
ForwardStreams(c) == {i \in DOMAIN streams[c] : streams[c][i].by = "forward"}

\* C1: any two executions of the action wrapped by one limiter are at least
\* one period apart, whatever the interleaving of invocations and timer firings.
C1_ExecutionsOnePeriodApart ==
    (Ran /\ ev.d.gap # NoTime) => ev.d.gap >= PeriodTicks

\* C2: a deferred execution runs with the arguments of the most recent
\* invocation made before the timer fired, never with those of an earlier one.
C2_LatestCallWins ==
    ev.op = "fire" => ev.d.args = ev.d.latest

\* a timer fired with arguments other than those of the call that scheduled it
C2_Witness ==
    /\ ev.op = "fire"
    /\ ev.d.args # ev.d.byArgs
    /\ hist[ev.lim].nInvoke > ev.d.by

\* C3: an invocation of a limiter that has not executed yet runs the action
\* once inside the invocation and schedules no timer; while no further
\* invocation follows, no second execution happens and none is pending.
C3_FirstInvocationImmediate ==
    /\ (ev.op = "invoke" /\ ev.d.first) =>
            /\ ev.d.ran = "immediate"
            /\ ~ev.d.scheduled
            /\ hist[ev.lim].nExec = ev.d.execsBefore + 1
            /\ TimersOf(ev.lim) = {}
    /\ \A l \in Limiters :
            hist[l].nInvoke = 1 => (hist[l].nExec = 1 /\ TimersOf(l) = {})

\* more than a period after the only invocation of a limiter, one execution
C3_Witness ==
    \E l \in Limiters :
        /\ hist[l].nInvoke = 1
        /\ hist[l].nExec = 1
        /\ now > hist[l].lastExecT + PeriodTicks

\* C4 (as claimed): repeated stream_frames calls on one client never open
\* more than one server stream.
C4_AtMostOneStreamPerClient ==
    \A c \in Clients : Len(streams[c]) <= 1

\* C4 (amended): every stream_frames call opens one new server stream, the
\* client keeps no handle; AmigaCamera.forward calls it only while its own
\* stream field is None, so forward opens at most one stream per component.
C4_OneStreamPerCallForwardOnce ==
    /\ ev.op = "stream_frames" => Len(streams[ev.c]) = ev.d.opened + 1
    /\ \A c \in Clients :
            /\ Cardinality(ForwardStreams(c)) <= 1
            /\ component[c] # 0 => component[c] \in ForwardStreams(c)

\* forward ran again on a component that already holds a stream, on a client
\* that has two streams open
C4_Witness ==
    /\ ev.op = "forward"
    /\ ev.d.had
    /\ Len(streams[ev.c]) = 2

\* C5: get_state does not raise: any failure of the state RPC gives UNKNOWN,
\* a successful reply gives the state it carries.
C5_GetStateNeverRaises ==
    \A c \in Clients :
        stateResult[c] # << >> =>
            LET r == stateResult[c][1] IN
            /\ r.outcome.kind = "error" =>
                   ~r.got.raised /\ r.got.state = "UNKNOWN"
            /\ (r.outcome.kind = "reply" /\ r.outcome.state \in ServiceStates) =>
                   ~r.got.raised /\ r.got.state = r.outcome.state

\* one client polled into a timeout, the other got a RUNNING reply
C5_Witness ==
    \E c, c2 \in Clients :
        /\ stateResult[c] # << >>
        /\ stateResult[c][1].outcome.err = "DEADLINE_EXCEEDED"
        /\ stateResult[c2] # << >>
        /\ stateResult[c2][1].outcome.state = "RUNNING"

\* C6 (as claimed): when send_settings completes with an OK reply, the
\* client's settings of both channels equal the values echoed in the reply.
C6_SendSettingsAppliesReply ==
    (ev.op = "send_settings_return" /\ ev.d.reply.status = "OK") =>
        /\ MonoValue(ev.c) = ev.d.reply.stereo
        /\ RgbValue(ev.c) = ev.d.reply.rgb

\* C6 (amended): send_settings only returns the reply; when settings_reply
\* processes a reply whose status is OK, the rgb settings equal the echoed rgb
\* values, and the mono settings equal the echoed stereo values unless both
\* fields hold one and the same object, which then holds the echoed rgb values.
C6_SettingsReplyAppliesReply ==
    (ev.op = "settings_reply" /\ ev.d.reply.status = "OK") =>
        /\ RgbValue(ev.c) = ev.d.reply.rgb
        /\ client[ev.c].mono_camera_settings # client[ev.c].rgb_camera_settings
                => MonoValue(ev.c) = ev.d.reply.stereo

\* an OK reply that differs from the request in both channels was processed
C6_Witness ==
    /\ ev.op = "settings_reply"
    /\ ev.d.reply.status = "OK"
    /\ ev.d.before.stereo # ev.d.reply.stereo
    /\ ev.d.before.rgb # ev.d.reply.rgb
    /\ ev.d.reply.stereo # ev.d.reply.rgb
    /\ client[ev.c].mono_camera_settings # client[ev.c].rgb_camera_settings

\* C7: processing a reply whose status is not OK leaves the mono and rgb
\* settings of the client as they were.
C7_NonOkReplyChangesNothing ==
    [][(ev'.op = "settings_reply" /\ ev'.d.reply.status # "OK")
            => (client' = client /\ heap' = heap)]_vars

\* a non-OK reply carrying other values than the client holds was processed
C7_Witness ==
    /\ ev.op = "settings_reply"
    /\ ev.d.reply.status # "OK"
    /\ ev.d.reply.rgb # RgbValue(ev.c)
    /\ ev.d.reply.stereo # MonoValue(ev.c)

\* C8: after a send_settings whose reply is not OK, needs_update is set.
C8_NonOkReplyKeepsDirty ==
    (ev.op \in {"send_settings_return", "settings_reply"} /\ ev.d.reply.status # "OK")
        => client[ev.c].needs_update

\* C9: send_settings starts exactly one cameraControl RPC, whose request
\* carries the client's mono and rgb settings as they are at the call, and
\* needs_update is false from the dispatch on, whatever the RPC's outcome.
C9_SendSettingsDispatch ==
    [][/\ \A c \in Clients :
            (ev'.op = "send_settings" /\ ev'.c = c) =>
                /\ ctrl' = [ctrl EXCEPT ![c] = Append(@, [stereo |-> MonoValue(c),
                                                          rgb |-> RgbValue(c)])]
                /\ ~client'[c].needs_update
       /\ ev'.op \in {"send_settings_return", "send_settings_raise"} => client' = client
      ]_vars

\* a push of a dirty client whose two channels hold different values
C9_Witness ==
    /\ ev.op = "send_settings"
    /\ ev.d.dirty
    /\ ~client[ev.c].needs_update
    /\ ev.d.request.stereo # ev.d.request.rgb
    /\ Len(ctrl[ev.c]) = 1

\* C10: an execution of update_rgb_settings (update_mono_settings), immediate
\* or deferred, starts no RPC and changes only the rgb (mono) settings field
\* and needs_update of the client it runs on.
C10_UpdateTouchesOwnChannelOnly ==
    [][ev'.d.ran # "no" =>
         LET c == ev'.c IN
         /\ ctrl' = ctrl /\ held' = held /\ statePoll' = statePoll /\ streams' = streams
         /\ heap' = heap
         /\ ev'.lim = "rgb" =>
                client'[c].mono_camera_settings = client[c].mono_camera_settings
         /\ ev'.lim = "mono" =>
                client'[c].rgb_camera_settings = client[c].rgb_camera_settings
         /\ client'[c].needs_update
         /\ \A c2 \in Clients \ {c} : client'[c2] = client[c2]
      ]_vars

\* a deferred rgb update ran while a push was in flight and the mono field
\* already held another object than the rgb field received
C10_Witness ==
    /\ ev.op = "fire"
    /\ ev.lim = "rgb"
    /\ ctrl[ev.c] # << >>
    /\ client[ev.c].mono_camera_settings = "x"
    /\ client[ev.c].rgb_camera_settings = "y"

\* C11: an invocation or a deferred firing on one channel leaves the other
\* channel's limiter (last execution time, stored arguments, scheduled flag),
\* its pending timers and its executions untouched.
C11_ChannelsIndependent ==
    [][\A l \in Limiters :
          (ev'.op \in {"invoke", "fire"} /\ ev'.lim = l) =>
              \A m \in Limiters \ {l} :
                  /\ limiter'[m] = limiter[m]
                  /\ {t \in timers' : t.lim = m} = TimersOf(m)
                  /\ hist'[m] = hist[m]
      ]_vars

\* a deferred mono execution ran while an rgb execution was scheduled
C11_Witness ==
    /\ ev.op = "fire"
    /\ ev.lim = "mono"
    /\ limiter["rgb"].outstanding_call
    /\ TimersOf("rgb") # {}
    /\ limiter["rgb"].args # limiter["mono"].args

\* C12: at most one deferred execution is pending per limited action in every
\* reachable state, also when timers fire late.
C12_AtMostOneTimerPending ==
    \A l \in Limiters : Cardinality(TimersOf(l)) <= 1

\* C13: clients do not share limiters: the first update a client invokes on a
\* channel runs at once whatever other clients did, and a deferred execution
\* runs for the client whose invocation scheduled it.
C13_ClientsDoNotInterfere ==
    /\ (ev.op = "invoke" /\ ev.d.newCaller) => ev.d.ran = "immediate"
    /\ ev.op = "fire" => ev.c = ev.d.byArgs[1]

\* C14: within one limited action every execution runs the arguments of a
\* later invocation than the execution before it: none is executed twice and
\* none out of order.
C14_ExecutionsFollowInvocationOrder ==
    Ran => ev.d.args[3] > ev.d.prevInv

\* C16 (as claimed): an invocation whose remaining wait is exactly 0 runs the
\* action inside the invocation and updates the last execution time, and
\* schedules nothing.
C16_ZeroWaitRunsAtOnce ==
    (ev.op = "invoke" /\ ev.d.delay = 0) =>
        /\ ev.d.ran = "immediate"
        /\ ~ev.d.scheduled
        /\ limiter[LimiterOf(ev.lim)].last_call = now

\* C16 (amended): an invocation whose remaining wait is exactly 0 does not run
\* the action: it stores the arguments and, unless a deferred execution is
\* already scheduled, schedules one due at once; the last execution time stays
\* until that timer runs.  Only a negative wait runs the action at once.
C16_ZeroWaitIsDeferred ==
    /\ (ev.op = "invoke" /\ ev.d.delay = 0) =>
            /\ ev.d.ran = "no"
            /\ hist[ev.lim].nExec = ev.d.execsBefore
            /\ limiter[LimiterOf(ev.lim)].args = ev.d.latest
            /\ limiter[LimiterOf(ev.lim)].outstanding_call
            /\ limiter[LimiterOf(ev.lim)].last_call = now - PeriodTicks
            /\ ev.d.scheduled =>
                   \E t \in TimersOf(ev.lim) : t.when = now /\ t.byArgs = ev.d.latest
    /\ (ev.op = "invoke" /\ ev.d.delay < 0) =>
            /\ ev.d.ran = "immediate"
            /\ limiter[LimiterOf(ev.lim)].last_call = now

\* an invocation exactly one period after the last execution scheduled a timer
C16_Witness ==
    /\ ev.op = "invoke"
    /\ ev.d.delay = 0
    /\ ev.d.scheduled
    /\ ~ev.d.first

\* C17: processing an acknowledgement never changes the values the next
\* send_settings will push; only update executions change them.
C17_AckKeepsDesiredSettings ==
    ev.op = "settings_reply" =>
        /\ MonoValue(ev.c) = ev.d.before.stereo
        /\ RgbValue(ev.c) = ev.d.before.rgb

\* C20: an update execution sets needs_update, and the flag stays set until
\* the next send_settings of that client clears it; so it is set after a
\* deferred firing that follows a send_settings.
C20_ExecutedUpdateStaysFlagged ==
    [][\A c \in Clients :
          /\ (ev'.d.ran # "no" /\ ev'.c = c /\ ~ev'.d.raised) => client'[c].needs_update
          /\ (client[c].needs_update /\ ~(ev'.op = "send_settings" /\ ev'.c = c))
                => client'[c].needs_update
      ]_vars

\* a timer fired right after a send_settings had cleared the flag
C20_Witness ==
    /\ ev.op = "fire"
    /\ ev.d.prev = "send_settings"
    /\ ev.d.prevC = ev.c
    /\ ~ev.d.wasDirty
    /\ client[ev.c].needs_update
    /\ ctrl[ev.c] # << >>

\* C18: a reply whose state value is outside the enumeration is handled like
\* an RPC failure: get_state returns UNKNOWN and does not raise.
C18_MalformedReplyGivesUnknown ==
    \A c \in Clients :
        (stateResult[c] # << >> /\ stateResult[c][1].outcome.state \in MalformedStates) =>
            /\ ~stateResult[c][1].got.raised
            /\ stateResult[c][1].got.state = "UNKNOWN"

\* C19: an execution in which the action raises consumes its slot: the last
\* execution time is set and the scheduled flag cleared as after a successful
\* execution, and the action does not run again before a new invocation.
C19_FailedExecutionConsumesSlot ==
    (Ran /\ ev.d.raised) =>
        /\ limiter[LimiterOf(ev.lim)].last_call = now
        /\ ~limiter[LimiterOf(ev.lim)].outstanding_call
        /\ ev.d.args[3] # ev.d.prevInv

\* the limiter's own bookkeeping after a raising execution
RaisedExecutionBookkeeping ==
    (Ran /\ ev.d.raised) =>
        /\ limiter[LimiterOf(ev.lim)].last_call = now
        /\ ~limiter[LimiterOf(ev.lim)].outstanding_call

\* C15: on a running event loop every invocation is followed by an execution
\* with the arguments of the latest invocation made by then, and in the end
\* the latest invocation of each action has been executed and no timer is
\* pending.
C15_LatestInvocationEventuallyRuns ==
    /\ \A l \in Limiters : \A n \in 1..MaxCalls :
          (hist[l].nInvoke = n) ~> (hist[l].lastExecInv >= n)
    /\ <>[](/\ timers = {}
            /\ \A l \in Limiters : hist[l].lastExecInv = hist[l].nInvoke)

\* a timer ran the arguments of an invocation later than the one that
\* scheduled it, and nothing is left pending
C15_Witness ==
    /\ ev.op = "fire"
    /\ ev.d.by < ev.d.args[3]
    /\ hist[ev.lim].nInvoke >= 3
    /\ hist[ev.lim].lastExecInv = hist[ev.lim].nInvoke
    /\ timers = {}

====
